---- MODULE Spec2Model ----
(***************************************************************************)
(* State-machine model of src/main.py: the POST /scrape request handler    *)
(* (search_sales_navigator) and the PhantomBusterClient /                  *)
(* LinkedInDataProcessor operations it drives.  One action is one blocking *)
(* step of the handler: an outbound call together with the code that       *)
(* handles its answer (including the time.sleep that follows it).          *)
(***************************************************************************)
EXTENDS Integers, Sequences, FiniteSets, TLC

(***************************************************************************)
(* Program constants                                                       *)
(***************************************************************************)
max_retries == 5            \* self.max_retries
retry_delay == 60           \* self.retry_delay
container_max_retries == 30 \* max_retries local of check_container_status
container_delay == 10       \* time.sleep(10)

phantom_ids == <<"2696753432671290", "2786592566218024", "8109199544661391">>

Slots == {1, 2}             \* request slots of the server
SeqSlots == {1}             \* the slot that serves requests back to back

(***************************************************************************)
(* Values: exceptions, returns, dictionary access                          *)
(***************************************************************************)
Ret(v) == [t |-> "ret", v |-> v]
Raise(e) == [t |-> "raise", e |-> e]

\* HTTPException(status_code, detail); kind is the failure kind of the raise
\* site in the taxonomy (a label, not program data)
HTTPException(code, text, arg, kind) ==
  [exc |-> "HTTPException", status_code |-> code, detail |-> <<text, arg>>, kind |-> kind]
OtherException(name) ==
  [exc |-> name, status_code |-> 0, detail |-> <<name, "">>, kind |-> "Generic"]
NoExc == [exc |-> "none", status_code |-> 0, detail |-> <<"", "">>, kind |-> ""]

\* dict.get(key, default)
Get(d, k, default) == IF k \in DOMAIN d THEN d[k] ELSE default

(***************************************************************************)
(* Inputs: request bodies, bearer tokens, provider answers                 *)
(***************************************************************************)
UserIds == {"u1", "u2"}
Queries == {[url |-> "url1", cookie |-> "c1", userId |-> "u2"],
            [url |-> "url2", cookie |-> "c2", userId |-> "u1"]}
Tokens == {"tok_u1", "tok_bad"}
JobIds == {"J1", "J2"}
NoQuery == [url |-> "", cookie |-> "", userId |-> ""]

NetError == [net |-> "error", status_code |-> 0, body |-> [none |-> ""]]
Http(code, body) == [net |-> "ok", status_code |-> code, body |-> body]

\* answers of GET /agents/fetch
AgentResponses ==
  { Http(200, [id |-> "agent", status |-> "RUNNING"]),
    Http(200, [id |-> "agent", status |-> "idle"]),
    Http(200, [id |-> "agent"]),
    Http(500, [error |-> "internal"]),
    NetError }

\* a body that is not JSON (the error page of a gateway).  response.json()
\* raises on it; the class it raises depends on the installed requests:
\* requests.exceptions.JSONDecodeError, a RequestException, from 2.27 on,
\* and the ValueError of the json module before
NotJson(cls) == [raw |-> "<html>", json_raises |-> cls]
JsonErrorClasses == {"requests.JSONDecodeError", "json.JSONDecodeError"}
IsRequestException(cls) == cls \in {"RequestException", "requests.JSONDecodeError"}

\* response.json()
response_json(resp) ==
  IF "json_raises" \in DOMAIN resp.body
  THEN Raise(OtherException(resp.body["json_raises"]))
  ELSE Ret(resp.body)

\* answers of POST /agents/launch
LaunchResponses ==
  { Http(200, [containerId |-> j]) : j \in JobIds } \cup
  { Http(502, NotJson(cls)) : cls \in JsonErrorClasses } \cup
  { Http(200, [status |-> "ok"]),
    Http(429, [error |-> "maxParallelismReached"]),
    Http(400, [error |-> "Agent not found"]),
    NetError }

\* answers of GET /containers/fetch
ContainerResponses ==
  { Http(200, [id |-> "c", status |-> "running"]),
    Http(200, [id |-> "c", status |-> "finished"]),
    Http(200, [id |-> "c", status |-> "failed", error |-> "boom"]),
    Http(200, [id |-> "c", status |-> "failed"]),
    Http(500, [error |-> "internal"]),
    NetError }

(***************************************************************************)
(* PhantomBusterClient: worker acquisition                                 *)
(***************************************************************************)
\* is_phantom_running: requests.get raises on a transport failure
is_phantom_running(resp) ==
  IF resp.net = "error" THEN Raise(OtherException("RequestException"))
  ELSE IF resp.status_code # 200
       THEN Raise(HTTPException(500, "Error checking phantom status", "", "Generic"))
       ELSE Ret(Get(resp.body, "status", "None") = "RUNNING")

\* `for attempt in range(self.max_retries)`: no iteration follows this one
\* (variant: the range one iteration short)
wait_range_done_m(k) == k + 1 >= max_retries - 1
wait_range_done(k) == k + 1 >= max_retries

\* `if attempt < self.max_retries - 1: time.sleep(self.retry_delay)`
\* (variant: the sleep without the `if`, after the last attempt as well)
wait_sleep_m(k) == retry_delay
wait_sleep(k) == IF k < max_retries - 1 THEN retry_delay ELSE 0

\* one iteration of the loop of wait_for_phantom_availability
\* (variant: a status check that failed counts as available)
wait_for_phantom_availability_m(k, resp) ==
  LET run == is_phantom_running(resp) IN
  IF run.t = "raise"
  THEN IF run.e.exc = "HTTPException"
       THEN [ctl |-> "return", sleep |-> 0, e |-> NoExc]
       ELSE [ctl |-> "raise", sleep |-> 0, e |-> run.e]
  ELSE IF ~run.v
       THEN [ctl |-> "return", sleep |-> 0, e |-> NoExc]
       ELSE [ctl |-> "continue", sleep |-> wait_sleep(k), e |-> NoExc]
wait_for_phantom_availability(k, resp) ==
  LET run == is_phantom_running(resp) IN
  IF run.t = "raise"
  THEN IF run.e.exc = "HTTPException"
       THEN [ctl |-> "continue", sleep |-> wait_sleep(k), e |-> NoExc]
       ELSE [ctl |-> "raise", sleep |-> 0, e |-> run.e]
  ELSE IF ~run.v
       THEN [ctl |-> "return", sleep |-> 0, e |-> NoExc]
       ELSE [ctl |-> "continue", sleep |-> wait_sleep(k), e |-> NoExc]

\* get_available_phantom after a status check of worker idx, attempt k:
\* what the two nested loops do next
\* (variant: an exhausted pool hands out its last worker)
get_available_phantom_m(idx, k, resp) ==
  LET w == wait_for_phantom_availability(k, resp) IN
  IF w.ctl = "raise" THEN [ctl |-> "raise", idx |-> idx, k |-> k, sleep |-> 0, e |-> w.e]
  ELSE IF w.ctl = "return" THEN [ctl |-> "return", idx |-> idx, k |-> 0, sleep |-> 0, e |-> NoExc]
  ELSE IF ~wait_range_done(k)
       THEN [ctl |-> "continue", idx |-> idx, k |-> k + 1, sleep |-> w.sleep, e |-> NoExc]
       ELSE IF idx < Len(phantom_ids)
            THEN [ctl |-> "continue", idx |-> idx + 1, k |-> 0, sleep |-> w.sleep, e |-> NoExc]
            ELSE [ctl |-> "return", idx |-> idx, k |-> 0, sleep |-> w.sleep, e |-> NoExc]
get_available_phantom(idx, k, resp) ==
  LET w == wait_for_phantom_availability(k, resp) IN
  IF w.ctl = "raise" THEN [ctl |-> "raise", idx |-> idx, k |-> k, sleep |-> 0, e |-> w.e]
  ELSE IF w.ctl = "return" THEN [ctl |-> "return", idx |-> idx, k |-> 0, sleep |-> 0, e |-> NoExc]
  ELSE IF ~wait_range_done(k)
       THEN [ctl |-> "continue", idx |-> idx, k |-> k + 1, sleep |-> w.sleep, e |-> NoExc]
       ELSE IF idx < Len(phantom_ids)
            THEN [ctl |-> "continue", idx |-> idx + 1, k |-> 0, sleep |-> w.sleep, e |-> NoExc]
            ELSE [ctl |-> "raise", idx |-> idx, k |-> k, sleep |-> w.sleep,
                  e |-> HTTPException(503, "All phantoms are busy and maximum retry attempts reached",
                                      "", "AllWorkersBusy")]

(***************************************************************************)
(* PhantomBusterClient: launch                                             *)
(***************************************************************************)
\* the payload of POST /agents/launch, built once before the retry loop
\* (variant: the first worker of the list instead of the one passed in)
launch_payload_m(phantom_id, q) ==
  [id |-> phantom_ids[1],
   argument |-> [searches |-> q.url, sessionCookie |-> q.cookie]]
launch_payload(phantom_id, q) ==
  [id |-> phantom_id,
   argument |-> [searches |-> q.url, sessionCookie |-> q.cookie]]

\* `"maxParallelismReached" in str(error_data)`
MentionsMaxParallelism(body) ==
  \E f \in DOMAIN body : f = "maxParallelismReached" \/ body[f] = "maxParallelismReached"

\* after `time.sleep(self.retry_delay)` the for loop goes on, or is
\* exhausted and line 145 raises
\* (variant: the loop goes on with the same attempt number)
trigger_retry_m(k) ==
  [ctl |-> "continue", k |-> k, sleep |-> retry_delay, v |-> "", e |-> NoExc]
trigger_retry(k) ==
  IF k + 1 < max_retries
  THEN [ctl |-> "continue", k |-> k + 1, sleep |-> retry_delay, v |-> "", e |-> NoExc]
  ELSE [ctl |-> "raise", k |-> k, sleep |-> retry_delay, v |-> "",
        e |-> HTTPException(503, "Maximum retry attempts reached while launching phantom",
                            "", "AllWorkersBusy")]

\* `if response.status_code == 200: return response.json()["containerId"]`
\* (variant: a fixed container id instead of the answer's)
trigger_success_m(k, resp) ==
  IF "containerId" \in DOMAIN resp.body
  THEN [ctl |-> "return", k |-> k, sleep |-> 0, v |-> "J1", e |-> NoExc]
  ELSE [ctl |-> "raise", k |-> k, sleep |-> 0, v |-> "", e |-> OtherException("KeyError")]
trigger_success(k, resp) ==
  IF "containerId" \in DOMAIN resp.body
  THEN [ctl |-> "return", k |-> k, sleep |-> 0, v |-> resp.body["containerId"], e |-> NoExc]
  ELSE [ctl |-> "raise", k |-> k, sleep |-> 0, v |-> "", e |-> OtherException("KeyError")]

\* `except requests.exceptions.RequestException` of trigger_phantom
trigger_except(k) ==
  IF k = max_retries - 1
  THEN [ctl |-> "raise", k |-> k, sleep |-> 0, v |-> "",
        e |-> HTTPException(500, "Network error launching phantom", "", "LaunchFailed")]
  ELSE trigger_retry(k)

\* one iteration of the loop of trigger_phantom, and what follows it
trigger_phantom(k, resp) ==
  IF resp.net = "error" THEN trigger_except(k)
  ELSE IF resp.status_code = 200 THEN trigger_success(k, resp)
  ELSE LET error_data == response_json(resp) IN
       IF error_data.t = "raise"
       THEN IF IsRequestException(error_data.e.exc)
            THEN trigger_except(k)
            ELSE [ctl |-> "raise", k |-> k, sleep |-> 0, v |-> "", e |-> error_data.e]
       ELSE IF MentionsMaxParallelism(error_data.v) /\ k < max_retries - 1
            THEN trigger_retry(k)
            ELSE [ctl |-> "raise", k |-> k, sleep |-> 0, v |-> "",
                  e |-> HTTPException(500, "Error launching phantom", "", "LaunchFailed")]

(***************************************************************************)
(* PhantomBusterClient: job-status polling                                 *)
(***************************************************************************)
\* control after `retry_count += 1; time.sleep(10)`: the while test
\* (variant: `retry_count < max_retries - 1`)
container_retry_m2(n) ==
  IF n + 1 < container_max_retries - 1
  THEN [ctl |-> "continue", n |-> n + 1, sleep |-> container_delay, e |-> NoExc]
  ELSE [ctl |-> "raise", n |-> n + 1, sleep |-> container_delay,
        e |-> HTTPException(504, "Container execution timed out", "", "JobTimeout")]
\* (variant: `retry_count <= max_retries`)
container_retry_m(n) ==
  IF n + 1 <= container_max_retries
  THEN [ctl |-> "continue", n |-> n + 1, sleep |-> container_delay, e |-> NoExc]
  ELSE [ctl |-> "raise", n |-> n + 1, sleep |-> container_delay,
        e |-> HTTPException(504, "Container execution timed out", "", "JobTimeout")]
container_retry(n) ==
  IF n + 1 < container_max_retries
  THEN [ctl |-> "continue", n |-> n + 1, sleep |-> container_delay, e |-> NoExc]
  ELSE [ctl |-> "raise", n |-> n + 1, sleep |-> container_delay,
        e |-> HTTPException(504, "Container execution timed out", "", "JobTimeout")]

\* one iteration of the loop of check_container_status, and what follows it
\* (variant: finished is not recognised)
check_container_status_m(n, resp) ==
  IF resp.net = "error" THEN container_retry(n)
  ELSE IF resp.status_code # 200
  THEN [ctl |-> "raise", n |-> n, sleep |-> 0,
        e |-> HTTPException(500, "Failed to check container status", "", "Generic")]
  ELSE LET status == Get(resp.body, "status", "None") IN
       IF status = "failed"
       THEN [ctl |-> "raise", n |-> n, sleep |-> 0,
             e |-> HTTPException(500, "Container execution failed",
                                 Get(resp.body, "error", "Unknown error"), "JobFailed")]
       ELSE container_retry(n)
check_container_status(n, resp) ==
  IF resp.net = "error" THEN container_retry(n)
  ELSE IF resp.status_code # 200
  THEN [ctl |-> "raise", n |-> n, sleep |-> 0,
        e |-> HTTPException(500, "Failed to check container status", "", "Generic")]
  ELSE LET status == Get(resp.body, "status", "None") IN
       IF status = "finished" THEN [ctl |-> "return", n |-> n, sleep |-> 0, e |-> NoExc]
       ELSE IF status = "failed"
       THEN [ctl |-> "raise", n |-> n, sleep |-> 0,
             e |-> HTTPException(500, "Container execution failed",
                                 Get(resp.body, "error", "Unknown error"), "JobFailed")]
       ELSE container_retry(n)

(***************************************************************************)
(* LinkedInDataProcessor                                                   *)
(***************************************************************************)
\* JSON values as json.loads / response.json() produce them
JNull == [t |-> "null"]
JStr(s) == [t |-> "str", s |-> s]
JNum(n) == [t |-> "num", n |-> n]
JList(items) == [t |-> "list", items |-> items]
JDict(d) == [t |-> "dict", d |-> d]

ItemA == [firstName |-> "A", lastName |-> "B", CompanyUrl |-> "x"]
ItemC == [firstName |-> "C", location |-> "Paris", regularCompanyUrl |-> "y",
          sharedConnectionsCount |-> 3, unknownField |-> "z"]
UrlDict == [jsonUrl |-> "https://ext/result.json"]

\* json.loads on the texts the provider can send as a string resultObject
json_loads(text) ==
  CASE text = "null" -> Ret(JNull)
    [] text = "[]" -> Ret(JList(<<>>))
    [] text = "[{A},{C}]" -> Ret(JList(<<JDict(ItemA), JDict(ItemC)>>))
    [] text = "{A}" -> Ret(JDict(ItemA))
    [] text = "{jsonUrl}" -> Ret(JDict(UrlDict))
    [] text = "7" -> Ret(JNum(7))
    [] OTHER -> Raise(OtherException("JSONDecodeError"))

JsonTexts == {"null", "[]", "[{A},{C}]", "{A}", "{jsonUrl}", "7", "<html>"}

\* answers of GET /containers/fetch-result-object
ResultResponses ==
  { Http(200, [containerId |-> "c", resultObject |-> JStr(text)]) : text \in JsonTexts } \cup
  { Http(200, [containerId |-> "c", resultObject |-> v]) :
      v \in {JNull, JList(<<JDict(ItemA), JDict(ItemC)>>), JList(<<JDict(ItemC)>>),
             JList(<<JStr("x")>>), JDict(ItemA), JDict(UrlDict), JNum(7)} } \cup
  { Http(200, [containerId |-> "c"]),
    Http(500, [error |-> "internal"]),
    NetError }

\* answers of GET data["jsonUrl"]
NoResp == [net |-> "none", status_code |-> 0, body |-> [none |-> ""]]
ExtResponses ==
  { Http(200, v) : v \in {JNull, JList(<<JDict(ItemA), JDict(ItemC)>>), JDict(ItemC),
                          JDict(UrlDict), JStr("x")} } \cup
  { Http(404, JNull), NetError }

\* Python `a or b` on strings
Or(a, b) == IF a # "" THEN a ELSE b

process_profile(item) ==
  [ firstName |-> Get(item, "firstName", ""),
    lastName |-> Get(item, "lastName", ""),
    title |-> Get(item, "title", ""),
    companyName |-> Get(item, "companyName", ""),
    industry |-> Get(item, "industry", ""),
    companyLocation |-> Get(item, "companyLocation", ""),
    profileLocation |-> Get(item, "location", ""),
    connectionDegree |-> Get(item, "connectionDegree", ""),
    profileImageUrl |-> Get(item, "profileImageUrl", ""),
    sharedConnectionsCount |-> Get(item, "sharedConnectionsCount", 0),
    defaultProfileUrl |-> Get(item, "defaultProfileUrl", ""),
    companyUrl |-> Or(Get(item, "CompanyUrl", ""), Get(item, "regularCompanyUrl", "")) ]

\* the external-URL indirection (lines 253-263); uses ext only for a dict
\* that has the key jsonUrl
UsesJsonUrl(data) == data.t = "dict" /\ "jsonUrl" \in DOMAIN data.d
follow_json_url(data, ext) ==
  IF ~UsesJsonUrl(data) THEN Ret(data)
  ELSE IF ext.net = "error" THEN Raise(OtherException("RequestException"))
  ELSE IF ext.status_code # 200
       THEN Raise(HTTPException(500, "Failed to fetch JSON from external URL", "", "ResultFetchFailed"))
       ELSE Ret(ext.body)

\* lines 265-284: empty, single item, list
\* (variant: without the `isinstance(data, dict)` wrapping of lines 270-271)
clean_data_m2(data) ==
  IF data.t = "null" THEN Ret(<<>>)
  ELSE IF data.t # "list"
       THEN Raise(HTTPException(500, "Unexpected data format received from PhantomBuster",
                                data.t, "ResultFormatInvalid"))
       ELSE IF \E i \in 1..Len(data.items) : data.items[i].t # "dict"
            THEN Raise(OtherException("AttributeError"))
            ELSE Ret([i \in 1..Len(data.items) |-> process_profile(data.items[i].d)])
\* (variant: without the `data is None` case)
clean_data_m(data) ==
  LET lst == IF data.t = "dict" THEN JList(<<data>>) ELSE data IN
  IF lst.t # "list"
  THEN Raise(HTTPException(500, "Unexpected data format received from PhantomBuster",
                           lst.t, "ResultFormatInvalid"))
  ELSE IF \E i \in 1..Len(lst.items) : lst.items[i].t # "dict"
       THEN Raise(OtherException("AttributeError"))
       ELSE Ret([i \in 1..Len(lst.items) |-> process_profile(lst.items[i].d)])
clean_data(data) ==
  IF data.t = "null" THEN Ret(<<>>)
  ELSE LET lst == IF data.t = "dict" THEN JList(<<data>>) ELSE data IN
       IF lst.t # "list"
       THEN Raise(HTTPException(500, "Unexpected data format received from PhantomBuster",
                                lst.t, "ResultFormatInvalid"))
       ELSE IF \E i \in 1..Len(lst.items) : lst.items[i].t # "dict"
            THEN Raise(OtherException("AttributeError"))
            ELSE Ret([i \in 1..Len(lst.items) |-> process_profile(lst.items[i].d)])

\* lines 229-235: `result is None` covers a null and an absent resultObject
result_is_none(result) == result.t = "null"

\* the body of the try block (lines 223-284)
clean_body(body, ext) ==
  LET result == Get(body, "resultObject", JNull) IN
  IF result_is_none(result)
  THEN Raise(HTTPException(500, "No data received from PhantomBuster", "", "ResultFetchFailed"))
  ELSE LET parsed == IF result.t = "str" THEN json_loads(result.s) ELSE Ret(result) IN
       IF parsed.t = "raise"
       THEN Raise(HTTPException(500, "Invalid data format received from PhantomBuster",
                                "", "ResultFormatInvalid"))
       ELSE LET fetched == follow_json_url(parsed.v, ext) IN
            IF fetched.t = "raise" THEN fetched ELSE clean_data(fetched.v)

\* `except Exception as e` of fetch_and_clean_data (lines 286-291): every
\* exception of the try block, HTTPException included, is raised again as 500
fetch_except(e) == HTTPException(500, "Error processing data", e.detail[1], e.kind)

fetch_and_clean_data(resp, ext) ==
  IF resp.net = "error" THEN Raise(OtherException("RequestException"))
  ELSE IF resp.status_code # 200
       THEN Raise(HTTPException(500, "Failed to fetch data", "", "ResultFetchFailed"))
       ELSE LET r == clean_body(resp.body, ext) IN
            IF r.t = "raise" THEN Raise(fetch_except(r.e)) ELSE r

(***************************************************************************)
(* Identity verifier, session store, request handler                      *)
(***************************************************************************)
\* auth.verify_id_token: the decoded token of a valid token carries uid
verify_id_token(tok) ==
  CASE tok = "tok_u1" -> Ret([uid |-> "u1", aud |-> "app"])
    [] OTHER -> Raise(OtherException("InvalidIdTokenError"))

\* verify_token: any exception of the verifier becomes 401
verify_token(tok) ==
  LET v == verify_id_token(tok) IN
  IF v.t = "raise"
  THEN Raise(HTTPException(401, "Invalid authentication credentials", "", "Unauthorized"))
  ELSE v

\* PhantomBusterClient.__init__
PhantomBusterClient(key) ==
  IF key = "" THEN Raise(OtherException("ValueError")) ELSE Ret(key)

\* the outer except clauses of search_sales_navigator (lines 420-427)
\* (variant: `except Exception` placed first)
handler_except_m(e) ==
  HTTPException(500, "Internal server error", e.detail[1], e.kind)
handler_except(e) ==
  IF e.exc = "HTTPException" THEN e
  ELSE HTTPException(500, "Internal server error", e.detail[1], e.kind)

\* the inner except clause around the user document (lines 410-412)
user_doc_except(e) ==
  HTTPException(500, "Failed to handle user document", e.detail[1], "Generic")

\* the error response FastAPI sends for a raised HTTPException
error_response(e) == [status_code |-> e.status_code, detail |-> e.detail, kind |-> e.kind]

\* Firestore documents of collection users
NoDoc == [exists |-> FALSE, data |-> [none |-> ""]]
doc_set(data) == [exists |-> TRUE, data |-> data]
doc_update(old, data) ==
  [exists |-> TRUE,
   data |-> [f \in DOMAIN old.data \cup DOMAIN data |->
               IF f \in DOMAIN data THEN data[f] ELSE old.data[f]]]

\* lines 395-398
\* (variant: the cookie left out of the written fields)
user_data_m(q) == [Events_URL |-> q.url]
user_data(q) == [Events_URL |-> q.url, sessionCookie |-> q.cookie]

\* lines 376-378: the key of the user document
\* (variant: the userId of the request body)
user_doc_key_m(user, q) == q.userId
user_doc_key(user, q) == user["uid"]

(***************************************************************************)
(* State                                                                   *)
(***************************************************************************)
VARIABLES
  pc,        \* per slot: where the request stands
  loc,       \* per slot: the local variables of the handler and the client
  response,  \* per slot: the HTTP response of the request
  hist,      \* per slot: what the request has done so far (observation only)
  store,     \* collection users of the session store
  api_key    \* PHANTOM_KEY of the process environment

vars == <<pc, loc, response, hist, store, api_key>>

NoUser == [none |-> ""]
NoResponse == [status_code |-> 0]

InitLoc ==
  [query |-> NoQuery, token |-> "", user |-> NoUser, user_id |-> "",
   phantom_idx |-> 0, attempt |-> 0, phantom_id |-> "", container_id |-> "",
   retry_count |-> 0, results |-> <<>>, user_doc_exists |-> FALSE]

\* The observation record of a request.  calls, writes and origin cover the
\* whole request.  slept adds up the time.sleep calls of the three retry
\* loops and is kept until the stages that never sleep begin.  The other
\* fields log the outbound calls of the stage in progress and are kept until
\* the next stage makes its first call.
InitHist ==
  [calls |-> <<>>,          \* stages in the order of their first call
   slept |-> 0,             \* seconds of time.sleep in acquire, launch, poll
   writes |-> <<>>,         \* session-store writes
   origin |-> NoExc,        \* the exception that ended the request
   stage |-> "",            \* the stage the fields below belong to
   statusChecks |-> 0,      \* GET /agents/fetch requests
   runningSeen |-> 0,       \* of those, the ones that observed RUNNING
   checked |-> <<>>,        \* worker index of every status check
   launchReqs |-> 0,        \* POST /agents/launch requests
   maxParSeen |-> 0,        \* of those, answered maxParallelismReached
   launchTargets |-> {},    \* worker ids the launch requests named
   pollChecks |-> 0,        \* GET /containers/fetch requests
   firstTerminal |-> 0,     \* position of the first finished/failed status
   pollJobs |-> {},         \* container ids polled
   fetchJobs |-> {},        \* container ids whose result was fetched
   lastObs |-> NoResp,      \* the provider's last answer
   extObs |-> NoResp]       \* the answer of the external URL, when fetched

Init ==
  /\ pc = [r \in Slots |-> "idle"]
  /\ loc = [r \in Slots |-> InitLoc]
  /\ response = [r \in Slots |-> NoResponse]
  /\ hist = [r \in Slots |-> InitHist]
  /\ store = [u \in UserIds |-> NoDoc]
  /\ api_key \in {"key", ""}

\* the stages that retry with time.sleep
RetryStages == {"acquire", "launch", "poll"}

\* the observation record when `stage` makes an outbound call
StageLog(h, stage) ==
  IF h.stage = stage THEN h
  ELSE [InitHist EXCEPT !.stage = stage, !.calls = Append(h.calls, stage),
                        !.slept = IF stage \in RetryStages THEN h.slept ELSE 0,
                        !.writes = h.writes]

\* the request of slot r ends with exception e raised inside the handler
\* (variant: once the user id is known, the session is stored on the way
\* out, as in a finally clause)
Fails_m(r, e, h) ==
  /\ pc' = [pc EXCEPT ![r] = IF loc[r].user_id = "" THEN "done" ELSE "persist_get"]
  /\ response' = [response EXCEPT ![r] = error_response(handler_except(e))]
  /\ hist' = [hist EXCEPT ![r] = [h EXCEPT !.origin = e]]
Fails(r, e, h) ==
  /\ pc' = [pc EXCEPT ![r] = "done"]
  /\ response' = [response EXCEPT ![r] = error_response(handler_except(e))]
  /\ hist' = [hist EXCEPT ![r] = [h EXCEPT !.origin = e]]

(***************************************************************************)
(* Actions                                                                 *)
(***************************************************************************)
\* POST /scrape arrives with a body and a bearer token
Receive(r) ==
  /\ pc[r] \in {"idle", "done"}
  /\ \E q \in Queries, tok \in Tokens :
       loc' = [loc EXCEPT ![r] = [InitLoc EXCEPT !.query = q, !.token = tok]]
  /\ pc' = [pc EXCEPT ![r] = "auth"]
  /\ response' = [response EXCEPT ![r] = NoResponse]
  /\ hist' = [hist EXCEPT ![r] = InitHist]
  /\ UNCHANGED <<store, api_key>>

\* Depends(verify_token)
Authenticate(r) ==
  /\ pc[r] = "auth"
  /\ LET v == verify_token(loc[r].token)
         h == StageLog(hist[r], "authenticate") IN
     IF v.t = "raise"
     THEN /\ pc' = [pc EXCEPT ![r] = "done"]
          /\ response' = [response EXCEPT ![r] = error_response(v.e)]
          /\ hist' = [hist EXCEPT ![r] = [h EXCEPT !.origin = v.e]]
          /\ loc' = loc
     ELSE /\ pc' = [pc EXCEPT ![r] = "handler"]
          /\ loc' = [loc EXCEPT ![r].user = v.v]
          /\ hist' = [hist EXCEPT ![r] = h]
          /\ response' = response
  /\ UNCHANGED <<store, api_key>>

\* lines 371-378: the uid check and the construction of the client
Enter(r) ==
  /\ pc[r] = "handler"
  /\ LET user == loc[r].user
         client == PhantomBusterClient(api_key) IN
     IF "uid" \notin DOMAIN user
     THEN /\ Fails(r, HTTPException(400, "Invalid user data", "", "Generic"), hist[r])
          /\ loc' = loc
     ELSE IF client.t = "raise"
     THEN /\ Fails(r, client.e, hist[r])
          /\ loc' = loc
     ELSE /\ pc' = [pc EXCEPT ![r] = "acquire"]
          /\ loc' = [loc EXCEPT ![r].user_id = user_doc_key(user, loc[r].query),
                                ![r].phantom_idx = 1, ![r].attempt = 0]
          /\ UNCHANGED <<response, hist>>
  /\ UNCHANGED <<store, api_key>>

\* one status check of get_available_phantom and what the loops do with it
Acquire(r) ==
  /\ pc[r] = "acquire"
  /\ \E resp \in AgentResponses :
       LET out == get_available_phantom(loc[r].phantom_idx, loc[r].attempt, resp)
           running == resp.net = "ok" /\ resp.status_code = 200
                      /\ Get(resp.body, "status", "None") = "RUNNING"
           h == [StageLog(hist[r], "acquire") EXCEPT
                   !.statusChecks = @ + 1,
                   !.runningSeen = IF running THEN @ + 1 ELSE @,
                   !.checked = Append(@, loc[r].phantom_idx),
                   !.slept = @ + out.sleep,
                   !.lastObs = resp] IN
       CASE out.ctl = "raise" -> Fails(r, out.e, h) /\ loc' = loc
         [] out.ctl = "return" ->
              /\ pc' = [pc EXCEPT ![r] = "launch"]
              /\ loc' = [loc EXCEPT ![r].phantom_id = phantom_ids[out.idx],
                                    ![r].phantom_idx = out.idx,
                                    ![r].attempt = 0]
              /\ hist' = [hist EXCEPT ![r] = h]
              /\ response' = response
         [] OTHER ->
              /\ loc' = [loc EXCEPT ![r].phantom_idx = out.idx, ![r].attempt = out.k]
              /\ hist' = [hist EXCEPT ![r] = h]
              /\ UNCHANGED <<pc, response>>
  /\ UNCHANGED <<store, api_key>>

\* one launch request of trigger_phantom and what the loop does with it
Launch(r) ==
  /\ pc[r] = "launch"
  /\ \E resp \in LaunchResponses :
       LET out == trigger_phantom(loc[r].attempt, resp)
           maxpar == resp.net = "ok" /\ resp.status_code # 200
                     /\ MentionsMaxParallelism(resp.body)
           h == [StageLog(hist[r], "launch") EXCEPT
                   !.launchReqs = @ + 1,
                   !.maxParSeen = IF maxpar THEN @ + 1 ELSE @,
                   !.launchTargets =
                     @ \cup {launch_payload(loc[r].phantom_id, loc[r].query).id},
                   !.slept = @ + out.sleep,
                   !.lastObs = resp] IN
       CASE out.ctl = "raise" -> Fails(r, out.e, h) /\ loc' = loc
         [] out.ctl = "return" ->
              /\ pc' = [pc EXCEPT ![r] = "poll"]
              /\ loc' = [loc EXCEPT ![r].container_id = out.v, ![r].attempt = 0,
                                    ![r].retry_count = 0]
              /\ hist' = [hist EXCEPT ![r] = h]
              /\ response' = response
         [] OTHER ->
              /\ loc' = [loc EXCEPT ![r].attempt = out.k]
              /\ hist' = [hist EXCEPT ![r] = h]
              /\ UNCHANGED <<pc, response>>
  /\ UNCHANGED <<store, api_key>>

\* one status check of check_container_status and what the loop does with it
Poll(r) ==
  /\ pc[r] = "poll"
  /\ \E resp \in ContainerResponses :
       LET out == check_container_status(loc[r].retry_count, resp)
           terminal == resp.net = "ok" /\ resp.status_code = 200
                       /\ Get(resp.body, "status", "None") \in {"finished", "failed"}
           h0 == StageLog(hist[r], "poll")
           h == [h0 EXCEPT
                   !.pollChecks = @ + 1,
                   !.firstTerminal = IF @ = 0 /\ terminal THEN h0.pollChecks + 1 ELSE @,
                   !.pollJobs = @ \cup {loc[r].container_id},
                   !.slept = @ + out.sleep,
                   !.lastObs = resp] IN
       CASE out.ctl = "raise" ->
              /\ Fails(r, out.e, h)
              /\ loc' = [loc EXCEPT ![r].retry_count = out.n]
         [] out.ctl = "return" ->
              /\ pc' = [pc EXCEPT ![r] = "normalize"]
              /\ loc' = [loc EXCEPT ![r].retry_count = 0]
              /\ hist' = [hist EXCEPT ![r] = h]
              /\ response' = response
         [] OTHER ->
              /\ loc' = [loc EXCEPT ![r].retry_count = out.n]
              /\ hist' = [hist EXCEPT ![r] = h]
              /\ UNCHANGED <<pc, response>>
  /\ UNCHANGED <<store, api_key>>

\* the result payload decodes to a dict that names an external URL
FollowsJsonUrl(resp) ==
  /\ resp.net = "ok" /\ resp.status_code = 200
  /\ "resultObject" \in DOMAIN resp.body
  /\ LET ro == resp.body["resultObject"]
         p == IF ro.t = "str" THEN json_loads(ro.s) ELSE Ret(ro) IN
     p.t = "ret" /\ UsesJsonUrl(p.v)

\* LinkedInDataProcessor.fetch_and_clean_data(container_id, phantom_client)
Normalize(r) ==
  /\ pc[r] = "normalize"
  /\ \E resp \in ResultResponses :
     \E ext \in IF FollowsJsonUrl(resp) THEN ExtResponses ELSE {NoResp} :
       LET out == fetch_and_clean_data(resp, ext)
           h == [StageLog(hist[r], "normalize") EXCEPT
                   !.fetchJobs = @ \cup {loc[r].container_id},
                   !.lastObs = resp,
                   !.extObs = ext] IN
       IF out.t = "raise"
       THEN Fails(r, out.e, h) /\ loc' = loc
       ELSE /\ pc' = [pc EXCEPT ![r] = "persist_get"]
            /\ loc' = [loc EXCEPT ![r].results = out.v]
            /\ hist' = [hist EXCEPT ![r] = h]
            /\ response' = response
  /\ UNCHANGED <<store, api_key>>

\* user_doc = user_doc_ref.get()
PersistGet(r) ==
  /\ pc[r] = "persist_get"
  /\ LET h == StageLog(hist[r], "persist") IN
     \E ok \in BOOLEAN :
       IF ok
       THEN /\ pc' = [pc EXCEPT ![r] = "persist_write"]
            /\ loc' = [loc EXCEPT ![r].user_doc_exists = store[loc[r].user_id].exists]
            /\ hist' = [hist EXCEPT ![r] = h]
            /\ response' = response
       ELSE /\ Fails(r, user_doc_except(OtherException("GoogleAPICallError")), h)
            /\ loc' = loc
  /\ UNCHANGED <<store, api_key>>

\* user_doc_ref.set(user_data) or user_doc_ref.update(user_data)
PersistWrite(r) ==
  /\ pc[r] = "persist_write"
  /\ LET uid == loc[r].user_id
         data == user_data(loc[r].query)
         op == IF ~loc[r].user_doc_exists THEN "set" ELSE "update"
         h == [hist[r] EXCEPT !.writes = Append(@, [op |-> op, key |-> uid, data |-> data])] IN
     \E ok \in BOOLEAN :
       IF ok /\ (op = "set" \/ store[uid].exists)
       THEN /\ store' = [store EXCEPT ![uid] =
                           IF op = "set" THEN doc_set(data) ELSE doc_update(@, data)]
            /\ pc' = [pc EXCEPT ![r] = "respond"]
            /\ hist' = [hist EXCEPT ![r] = h]
            /\ UNCHANGED <<loc, response>>
       ELSE /\ Fails(r, user_doc_except(OtherException("GoogleAPICallError")), hist[r])
            /\ UNCHANGED <<loc, store>>
  /\ UNCHANGED api_key

\* lines 414-418
Respond(r) ==
  /\ pc[r] = "respond"
  /\ pc' = [pc EXCEPT ![r] = "done"]
  /\ response' = [response EXCEPT ![r] =
                    [status_code |-> 200, events |-> loc[r].results,
                     userId |-> loc[r].user_id, message |-> loc[r].query.url]]
  /\ hist' = [hist EXCEPT ![r] = StageLog(hist[r], "respond")]
  /\ UNCHANGED <<loc, store, api_key>>

Next ==
  \E r \in SeqSlots :
    \/ Receive(r)
    \/ Authenticate(r)
    \/ Enter(r)
    \/ Acquire(r)
    \/ Launch(r)
    \/ Poll(r)
    \/ Normalize(r)
    \/ PersistGet(r)
    \/ PersistWrite(r)
    \/ Respond(r)

Spec == Init /\ [][Next]_vars

(***************************************************************************)
(* Properties                                                              *)
(***************************************************************************)
Failed(r) == pc[r] = "done" /\ response[r].status_code # 200
Succeeded(r) == pc[r] = "done" /\ response[r].status_code = 200
PoolChecks == Len(phantom_ids) * max_retries

ObsOk(obs) == obs.net = "ok" /\ obs.status_code = 200
ObsStatus(obs) == IF ObsOk(obs) THEN Get(obs.body, "status", "None") ELSE "None"

\* slot r makes one worker status check / one job status check in this step
AcquireStep(r) ==
  /\ pc[r] = "acquire" /\ hist'[r].stage = "acquire"
  /\ hist'[r].statusChecks = hist[r].statusChecks + 1
PollStep(r) ==
  /\ pc[r] = "poll" /\ hist'[r].stage = "poll"
  /\ hist'[r].pollChecks = hist[r].pollChecks + 1

\* C1: when every worker status check of a request observed RUNNING, the
\* acquisition never makes more than pool_size * MAX_RETRIES checks, it ends
\* only by failing with AllWorkersBusy (503), and it has then made exactly
\* pool_size * MAX_RETRIES = 15 checks.
C1_AllRunningExhaustsPool ==
  \A r \in Slots :
    (hist[r].stage = "acquire" /\ hist[r].runningSeen = hist[r].statusChecks) =>
      /\ hist[r].statusChecks <= PoolChecks
      /\ pc[r] \in {"acquire", "done"}
      /\ pc[r] = "done" =>
           /\ response[r].status_code = 503
           /\ response[r].kind = "AllWorkersBusy"
           /\ hist[r].statusChecks = PoolChecks
      /\ (pc[r] = "acquire" => hist[r].statusChecks < PoolChecks)

C1_Witness ==
  \E r \in Slots :
    /\ pc[r] = "done" /\ hist[r].stage = "acquire"
    /\ hist[r].runningSeen = 15 /\ hist[r].statusChecks = 15
    /\ response[r].status_code = 503

\* C2: when all MAX_RETRIES launch attempts were answered with "maximum
\* parallelism reached", launch fails with AllWorkersBusy (503).
C2_ParallelismExhaustedIsBusy ==
  \A r \in Slots :
    (hist[r].stage = "launch" /\ pc[r] = "done"
       /\ hist[r].launchReqs = max_retries /\ hist[r].maxParSeen = max_retries) =>
      /\ response[r].status_code = 503
      /\ response[r].kind = "AllWorkersBusy"

\* the resultObject of a fetched result payload (None when absent)
ResultObject(obs) == Get(obs.body, "resultObject", JNull)
\* the payload decodes to null: the JSON text "null", or null at the
\* external URL
DecodesToNull(obs, ext) ==
  /\ ObsOk(obs) /\ "resultObject" \in DOMAIN obs.body
  /\ \/ ResultObject(obs).t = "str" /\ ResultObject(obs).s = "null"
     \/ FollowsJsonUrl(obs) /\ ObsOk(ext) /\ ext.body.t = "null"

\* C3 as stated: a fetched payload whose resultObject is null yields an empty
\* sequence and no error.
C3_NullResultIsEmpty ==
  \A r \in Slots :
    (hist[r].stage = "normalize" /\ ObsOk(hist[r].lastObs)
       /\ "resultObject" \in DOMAIN hist[r].lastObs.body
       /\ ResultObject(hist[r].lastObs).t = "null") =>
      /\ pc[r] = "persist_get"
      /\ loc[r].results = <<>>

\* C3 amended: a fetched payload whose result value is null after decoding
\* (the JSON text "null", or null at the external URL) yields an empty
\* sequence and no error; a payload whose resultObject itself is null or
\* absent fails with status 500 ("No data received from PhantomBuster").
C3_DecodedNullIsEmpty ==
  \A r \in Slots :
    hist[r].stage = "normalize" =>
      /\ DecodesToNull(hist[r].lastObs, hist[r].extObs) =>
           pc[r] = "persist_get" /\ loc[r].results = <<>>
      /\ (ObsOk(hist[r].lastObs) /\ ResultObject(hist[r].lastObs).t = "null") =>
           /\ Failed(r)
           /\ response[r].status_code = 500
           /\ hist[r].origin.detail = <<"Error processing data", "No data received from PhantomBuster">>

C3_Witness ==
  \E r \in Slots :
    /\ hist[r].stage = "normalize" /\ pc[r] = "persist_get"
    /\ ResultObject(hist[r].lastObs).t = "str"
    /\ ResultObject(hist[r].lastObs).s = "null"
    /\ loc[r].results = <<>>

\* C4: a job status check that observes finished within the 30 polls makes
\* check_container_status return normally; the number of status checks made
\* is then the position of the first terminal status, and no status check is
\* ever made after a terminal status was observed.
C4_FinishedReturnsAtFirstTerminal ==
  \A r \in Slots :
    hist[r].stage = "poll" =>
      /\ hist[r].firstTerminal # 0 =>
           hist[r].pollChecks = hist[r].firstTerminal /\ pc[r] # "poll"
      /\ ObsStatus(hist[r].lastObs) = "finished" =>
           /\ pc[r] = "normalize"
           /\ hist[r].pollChecks = hist[r].firstTerminal
           /\ hist[r].pollChecks <= container_max_retries
      /\ pc[r] = "normalize" => ObsStatus(hist[r].lastObs) = "finished"

C4_Witness ==
  \E r \in Slots :
    /\ hist[r].stage = "poll" /\ pc[r] = "normalize"
    /\ hist[r].pollChecks = 30 /\ hist[r].firstTerminal = 30

\* what a job status check does with its answer; fatalNon200 tells whether
\* a non-success provider response ends the polling (TRUE) or is one more
\* consumed attempt (FALSE)
PollOutcome(r, fatalNon200) ==
  LET obs == hist'[r].lastObs
      status == ObsStatus(obs)
      retried ==
        /\ loc'[r].retry_count = loc[r].retry_count + 1
        /\ hist'[r].slept = hist[r].slept + container_delay
        /\ IF loc[r].retry_count + 1 < container_max_retries
           THEN pc'[r] = "poll"
           ELSE /\ pc'[r] = "done"
                /\ response'[r].status_code = 504
                /\ response'[r].kind = "JobTimeout"
  IN
  CASE status = "finished" -> pc'[r] = "normalize"
    [] status = "failed" ->
         /\ pc'[r] = "done"
         /\ response'[r].kind = "JobFailed"
         /\ response'[r].detail =
              <<"Container execution failed", Get(obs.body, "error", "Unknown error")>>
    [] obs.net = "ok" /\ obs.status_code # 200 /\ fatalNon200 ->
         /\ pc'[r] = "done"
         /\ response'[r].status_code = 500
         /\ response'[r].detail = <<"Failed to check container status", "">>
         /\ loc'[r].retry_count = loc[r].retry_count
         /\ hist'[r].slept = hist[r].slept
    [] OTHER -> retried

\* C5 as stated: check_container_status ends by normal return, JobFailed
\* with the provider's message, or JobTimeout; every answer that is not
\* finished or failed (a transport error and a non-success response included)
\* consumes one attempt and polling continues after the delay.
C5_ThreeOutcomes ==
  [][\A r \in Slots : PollStep(r) => PollOutcome(r, FALSE)]_vars

\* C5 amended: check_container_status ends in one of four ways: normal
\* return, JobFailed with the provider's message (default "Unknown error"),
\* JobTimeout, or at once with status 500 when the provider answers a status
\* check with a non-success response; every other status and every transport
\* error consumes one attempt and polling continues after the delay.
C5_FourOutcomes ==
  [][\A r \in Slots : PollStep(r) => PollOutcome(r, TRUE)]_vars

C5_Witness ==
  \E r \in Slots :
    /\ hist[r].stage = "poll" /\ pc[r] = "done"
    /\ hist[r].pollChecks = 3
    /\ hist[r].lastObs.net = "ok" /\ hist[r].lastObs.status_code = 500
    /\ response[r].detail = <<"Failed to check container status", "">>

\* C6: a worker status check that ends in a transport error or a provider
\* error, with retry budget left for that worker, consumes one attempt: the
\* request goes on with the next attempt on the same worker after the delay.
C6_StatusErrorsAreRetried ==
  [][\A r \in Slots :
       (AcquireStep(r) /\ ~ObsOk(hist'[r].lastObs) /\ loc[r].attempt < max_retries - 1) =>
         /\ pc'[r] = "acquire"
         /\ loc'[r].attempt = loc[r].attempt + 1
         /\ loc'[r].phantom_idx = loc[r].phantom_idx
         /\ hist'[r].slept = hist[r].slept + retry_delay]_vars

\* C7: when the first N launch answers (N in 0..4) were "max parallelism" and
\* answer N+1 is a success, trigger_phantom returns the container id of that
\* answer after exactly N+1 launch requests.
C7_SuccessAfterParallelismRetries ==
  \A r \in Slots :
    (hist[r].stage = "launch" /\ ObsOk(hist[r].lastObs)
       /\ "containerId" \in DOMAIN hist[r].lastObs.body
       /\ hist[r].maxParSeen = hist[r].launchReqs - 1) =>
      /\ hist[r].maxParSeen \in 0..(max_retries - 1)
      /\ pc[r] = "poll"
      /\ loc[r].container_id = hist[r].lastObs.body["containerId"]

C7_Witness ==
  \E r \in Slots :
    /\ hist[r].stage = "launch" /\ pc[r] = "poll"
    /\ hist[r].maxParSeen = 4 /\ hist[r].launchReqs = 5
    /\ loc[r].container_id = "J2"

StageOrder ==
  <<"authenticate", "acquire", "launch", "poll", "normalize", "persist", "respond">>
IsPrefix(s, t) == Len(s) <= Len(t) /\ \A i \in 1..Len(s) : s[i] = t[i]

\* C8: the stages are called in the order authenticate, acquire, launch,
\* poll, normalize, persist, respond; a failed request has called no stage
\* after the one that failed, calls none later, and its response has no
\* records; when all 15 worker status checks observed RUNNING the response
\* is 503 and launch, poll and normalize were never called.
C8_StagesInOrderAndFailFast ==
  /\ [](\A r \in Slots :
          /\ IsPrefix(hist[r].calls, StageOrder)
          /\ Failed(r) =>
               /\ "events" \notin DOMAIN response[r]
               /\ hist[r].calls # <<>>
               /\ hist[r].calls[Len(hist[r].calls)] = hist[r].stage
               /\ hist[r].origin # NoExc
          /\ (hist[r].stage = "acquire" /\ hist[r].runningSeen = PoolChecks) =>
               /\ Failed(r)
               /\ response[r].status_code = 503
               /\ hist[r].calls = <<"authenticate", "acquire">>)
  /\ [][\A r \in Slots :
          (Failed(r) /\ pc'[r] = "done") => hist'[r] = hist[r] /\ store' = store]_vars

C8_Witness ==
  \E r \in Slots :
    /\ Failed(r) /\ response[r].status_code = 503
    /\ hist[r].runningSeen = 15
    /\ hist[r].calls = <<"authenticate", "acquire">>

\* C9: a successful request has made exactly one session-store write, keyed
\* by the uid of its token and carrying the submitted url and cookie (a set
\* when the document was absent, an update otherwise), after normalization
\* and before the response; the response holds the normalized records, the
\* token's uid and the submitted url as message.
C9_OneSessionWrite ==
  /\ [](\A r \in Slots :
          /\ Len(hist[r].writes) <= 1
          /\ hist[r].writes # <<>> =>
               /\ pc[r] \in {"respond", "done"}
               /\ hist[r].calls \in {SubSeq(StageOrder, 1, 6), StageOrder}
          /\ Succeeded(r) =>
               /\ hist[r].calls = StageOrder
               /\ Len(hist[r].writes) = 1
               /\ hist[r].writes[1].key = verify_id_token(loc[r].token).v["uid"]
               /\ hist[r].writes[1].data =
                    [Events_URL |-> loc[r].query.url, sessionCookie |-> loc[r].query.cookie]
               /\ response[r].events = loc[r].results
               /\ response[r].userId = verify_id_token(loc[r].token).v["uid"]
               /\ response[r].message = loc[r].query.url)
  /\ [][\A r \in Slots :
          hist'[r].writes # hist[r].writes /\ hist'[r].writes # <<>> =>
            LET w == hist'[r].writes[1] IN
            /\ w.op = IF store[w.key].exists THEN "update" ELSE "set"
            /\ store'[w.key].exists
            /\ store'[w.key].data = w.data
            /\ \A u \in UserIds \ {w.key} : store'[u] = store[u]]_vars

C9_Witness ==
  \E r \in Slots :
    /\ Succeeded(r)
    /\ hist[r].writes[1].op = "update"
    /\ hist[r].writes[1].key = "u1"
    /\ loc[r].query.userId = "u2"
    /\ Len(response[r].events) = 2

StatusOf(kind) ==
  CASE kind = "Unauthorized" -> 401
    [] kind = "AllWorkersBusy" -> 503
    [] kind = "JobTimeout" -> 504
    [] OTHER -> 500

\* C10: every failure response has the status of its failure kind (401
\* Unauthorized, 503 AllWorkersBusy, 504 JobTimeout, 500 otherwise), no other
\* status occurs, and the status an HTTPException was raised with is the
\* status of the response.
C10_StatusByFailureKind ==
  \A r \in Slots :
    Failed(r) =>
      /\ response[r].status_code \in {401, 503, 504, 500}
      /\ response[r].status_code = StatusOf(response[r].kind)
      /\ hist[r].origin.exc = "HTTPException" =>
           /\ response[r].status_code = hist[r].origin.status_code
           /\ response[r].kind = hist[r].origin.kind
      /\ hist[r].origin.exc # "HTTPException" => response[r].status_code = 500

C10_Witness ==
  \E r \in Slots :
    /\ Failed(r) /\ response[r].status_code = 504
    /\ response[r].kind = "JobTimeout"
    /\ hist[r].pollChecks = 30

\* the value the normalizer works on before the jsonUrl step: resultObject
\* itself, or what its JSON text decodes to
DecodedResult(obs) ==
  LET ro == ResultObject(obs) IN
  IF ro.t = "str" THEN json_loads(ro.s) ELSE Ret(ro)
\* the fetched payload is a single JSON object, inline or as JSON text
SingleObject(obs) ==
  /\ ObsOk(obs) /\ "resultObject" \in DOMAIN obs.body
  /\ DecodedResult(obs).t = "ret" /\ DecodedResult(obs).v.t = "dict"

\* C11 as stated: every result payload that is a single JSON object, inline
\* or as a JSON-encoded string, is normalized to a sequence of exactly one
\* element (checked for the requests in which no outbound call of the
\* normalizer failed).
C11_SingleObjectIsOneElement ==
  \A r \in Slots :
    (hist[r].stage = "normalize" /\ SingleObject(hist[r].lastObs)
       /\ (hist[r].extObs = NoResp \/ ObsOk(hist[r].extObs))) =>
      /\ pc[r] = "persist_get"
      /\ Len(loc[r].results) = 1

\* C11 amended: a result payload that is a single JSON object without the key
\* jsonUrl, inline or as a JSON-encoded string, is normalized to a sequence of
\* exactly one element, the normalized record of that object; an object with
\* the key jsonUrl is replaced by the content of that URL, and the outcome is
\* then that of the content (an error, or as many elements as it holds).
C11_PlainObjectIsOneElement ==
  \A r \in Slots :
    (hist[r].stage = "normalize" /\ SingleObject(hist[r].lastObs)) =>
      LET data == DecodedResult(hist[r].lastObs).v
          ext == hist[r].extObs IN
      IF ~UsesJsonUrl(data)
      THEN /\ pc[r] = "persist_get"
           /\ loc[r].results = <<process_profile(data.d)>>
      ELSE /\ ~ObsOk(ext) => Failed(r)
           /\ (ObsOk(ext) /\ ext.body.t = "list" /\ pc[r] = "persist_get") =>
                Len(loc[r].results) = Len(ext.body.items)
           /\ (ObsOk(ext) /\ ext.body.t = "null") =>
                pc[r] = "persist_get" /\ loc[r].results = <<>>

C11_Witness ==
  \E r \in Slots :
    /\ hist[r].stage = "normalize" /\ pc[r] = "persist_get"
    /\ ResultObject(hist[r].lastObs).t = "str"
    /\ DecodedResult(hist[r].lastObs).v = JDict(ItemA)
    /\ loc[r].results = <<process_profile(ItemA)>>

\* the worst case of spec section 6: 5 x 60 s + 5 x 60 s + 30 x 10 s
StatedDelayBudget ==
  max_retries * retry_delay + max_retries * retry_delay
    + container_max_retries * container_delay
\* the sleeps the three loops can make: max_retries - 1 per worker of the
\* pool, max_retries - 1 between launch attempts, one after each of the 30
\* non-terminal status checks
DelayBudget ==
  Len(phantom_ids) * (max_retries - 1) * retry_delay
    + (max_retries - 1) * retry_delay
    + container_max_retries * container_delay

\* C12 as stated: the fixed blocking delays of one request, summed over
\* worker acquisition, launch retry and job-status polling, never exceed
\* 5 x 60 + 5 x 60 + 30 x 10 = 900 seconds.
C12_DelaysWithinStatedBudget ==
  \A r \in Slots : hist[r].slept <= StatedDelayBudget

\* C12 amended: the fixed blocking delays of one request, summed over worker
\* acquisition, launch retry and job-status polling, never exceed
\* 3 x 4 x 60 + 4 x 60 + 30 x 10 = 1260 seconds, and acquisition alone never
\* sleeps more than 3 x 4 x 60 = 720 seconds.
C12_DelaysWithinBudget ==
  \A r \in Slots :
    /\ hist[r].slept <= DelayBudget
    /\ hist[r].stage = "acquire" =>
         hist[r].slept <= Len(phantom_ids) * (max_retries - 1) * retry_delay

C12_Witness ==
  \E r \in Slots :
    /\ hist[r].stage = "poll" /\ hist[r].pollChecks = container_max_retries
    /\ hist[r].slept = DelayBudget
    /\ DelayBudget > StatedDelayBudget

(***************************************************************************)
(* Two requests in flight at once.  The server runs the handler of every   *)
(* request on its own, so the steps of the two slots interleave in any     *)
(* order.  Both callers hold a valid token and the provider answers every  *)
(* call of the stages before the session write with success, which is the  *)
(* case of two successful requests; the two store calls may still fail.    *)
(***************************************************************************)
RaceReceive(r) == Receive(r) /\ loc'[r].token = "tok_u1"
RaceAcquire(r) == Acquire(r) /\ pc'[r] = "launch"
RaceLaunch(r) == Launch(r) /\ pc'[r] = "poll"
RacePoll(r) == Poll(r) /\ pc'[r] = "normalize"
RaceNormalize(r) == Normalize(r) /\ pc'[r] = "persist_get"

RaceNext ==
  \E r \in Slots :
    \/ RaceReceive(r)
    \/ Authenticate(r)
    \/ Enter(r)
    \/ RaceAcquire(r)
    \/ RaceLaunch(r)
    \/ RacePoll(r)
    \/ RaceNormalize(r)
    \/ PersistGet(r)
    \/ PersistWrite(r)
    \/ Respond(r)

SpecRace == Init /\ [][RaceNext]_vars

\* slot r executes its session-store write in this step
WriteStep(r) ==
  /\ pc[r] = "persist_write" /\ pc'[r] = "respond"
  /\ Len(hist'[r].writes) = Len(hist[r].writes) + 1

\* C13: with two requests for the same user id in flight, each request makes
\* at most one session-store write, after its own existence read and chosen
\* by that read alone (set when the read saw no record, update otherwise,
\* whatever the store holds by then); the record changes only in such a
\* write, and after every write it holds the url and the cookie of the
\* request that wrote, both fields of that one request: the record is always
\* that of the write executed last.
C13_LastWriteWins ==
  [][ /\ \A r \in Slots :
           /\ Len(hist'[r].writes) <= 1
           /\ WriteStep(r) =>
                /\ hist[r].calls = SubSeq(StageOrder, 1, 6)
                /\ hist'[r].writes[1].op =
                     (IF loc[r].user_doc_exists THEN "update" ELSE "set")
                /\ hist'[r].writes[1].key = loc[r].user_id
                /\ store'[loc[r].user_id].exists
                /\ store'[loc[r].user_id].data =
                     [Events_URL |-> loc[r].query.url,
                      sessionCookie |-> loc[r].query.cookie]
      /\ \A u \in UserIds :
           store'[u] # store[u] => \E r \in Slots : WriteStep(r) /\ loc[r].user_id = u
    ]_vars

\* both requests read the absent record before either wrote, both wrote, and
\* the record is the one of slot 2's request, which differs from slot 1's
C13_Witness ==
  /\ Succeeded(1) /\ Succeeded(2)
  /\ loc[1].user_id = loc[2].user_id
  /\ loc[1].query # loc[2].query
  /\ Len(hist[1].writes) = 1 /\ hist[1].writes[1].op = "set"
  /\ Len(hist[2].writes) = 1 /\ hist[2].writes[1].op = "set"
  /\ store[loc[2].user_id].data =
       [Events_URL |-> loc[2].query.url, sessionCookie |-> loc[2].query.cookie]

\* C14: every launch request of a request names the one worker that
\* get_available_phantom returned (the worker of its last status check); the
\* container id is assigned once, from the answer of the successful launch
\* request, and never changes afterwards; every job status check and the
\* result fetch use exactly that container id.
C14_OneWorkerOneJob ==
  /\ [](\A r \in Slots :
          /\ (hist[r].stage = "acquire" /\ pc[r] = "launch") =>
               loc[r].phantom_id = phantom_ids[hist[r].checked[Len(hist[r].checked)]]
          /\ hist[r].stage = "launch" =>
               /\ hist[r].launchTargets = {loc[r].phantom_id}
               /\ loc[r].phantom_id = phantom_ids[loc[r].phantom_idx]
               /\ pc[r] = "poll" =>
                    loc[r].container_id = hist[r].lastObs.body["containerId"]
          /\ hist[r].stage = "poll" => hist[r].pollJobs = {loc[r].container_id}
          /\ hist[r].stage = "normalize" => hist[r].fetchJobs = {loc[r].container_id})
  /\ [][\A r \in Slots :
          /\ loc'[r].phantom_id # loc[r].phantom_id =>
               \/ pc[r] = "acquire" /\ pc'[r] = "launch" /\ loc[r].phantom_id = ""
               \/ pc'[r] = "auth" /\ loc'[r].phantom_id = ""
          /\ loc'[r].container_id # loc[r].container_id =>
               \/ pc[r] = "launch" /\ pc'[r] = "poll" /\ loc[r].container_id = ""
               \/ pc'[r] = "auth" /\ loc'[r].container_id = ""
     ]_vars

\* the second worker was acquired, a launch was retried and then answered
\* with job J2, and the result of J2 is being fetched
C14_Witness ==
  \E r \in Slots :
    /\ hist[r].stage = "normalize"
    /\ loc[r].phantom_id = phantom_ids[2]
    /\ loc[r].container_id = "J2"
    /\ hist[r].fetchJobs = {"J2"}

\* C15: every session write of a request, the create of an absent record and
\* the overwrite of an existing one, records a last-updated timestamp
\* together with the search url and the session cookie.
C15_WritesRecordTimestamp ==
  \A r \in Slots :
    \A i \in 1..Len(hist[r].writes) :
      LET w == hist[r].writes[i] IN
      /\ {"Events_URL", "sessionCookie", "last_updated"} \subseteq DOMAIN w.data
      /\ {"Events_URL", "sessionCookie", "last_updated"} \subseteq DOMAIN store[w.key].data

\* the status check answered 200 with a status other than RUNNING
ObservedNotRunning(obs) == ObsOk(obs) /\ ObsStatus(obs) # "RUNNING"

\* C16: get_available_phantom checks the workers in list order: the i-th
\* status check of a request goes to worker ((i - 1) div MAX_RETRIES) + 1, so
\* worker k+1 is checked only after worker k was checked 5 times and no
\* worker is checked again after a later one; the check that observes
\* not-RUNNING ends the acquisition at once with the worker it checked, no
\* check before it observed not-RUNNING, and no status check follows it.
C16_ListOrderFirstIdle ==
  /\ [](\A r \in Slots :
          hist[r].stage = "acquire" =>
            /\ Len(hist[r].checked) = hist[r].statusChecks
            /\ \A i \in 1..Len(hist[r].checked) :
                 hist[r].checked[i] = ((i - 1) \div max_retries) + 1
            /\ pc[r] = "launch" =>
                 /\ ObservedNotRunning(hist[r].lastObs)
                 /\ loc[r].phantom_id = phantom_ids[hist[r].checked[hist[r].statusChecks]]
            /\ pc[r] \in {"acquire", "launch", "done"})
  /\ [][\A r \in Slots :
          /\ (AcquireStep(r) /\ ObservedNotRunning(hist'[r].lastObs)) =>
               pc'[r] = "launch"
          /\ (hist'[r].stage = "acquire"
                /\ hist'[r].statusChecks # hist[r].statusChecks) =>
               pc[r] = "acquire"
     ]_vars

\* worker 1 and worker 2 were passed over after 5 checks each, and the 11th
\* check found worker 3 idle
C16_Witness ==
  \E r \in Slots :
    /\ hist[r].stage = "acquire" /\ pc[r] = "launch"
    /\ hist[r].statusChecks = 2 * max_retries + 1
    /\ loc[r].phantom_id = phantom_ids[3]

\* slot r makes one launch request in this step
LaunchStep(r) ==
  /\ pc[r] = "launch" /\ hist'[r].stage = "launch"
  /\ hist'[r].launchReqs = hist[r].launchReqs + 1

\* C17: a launch answer that is not a success and not "maximum parallelism
\* reached" ends the request with status 500 on whichever attempt it comes,
\* without a delay and without a further launch request; a transport failure
\* ends the request with LaunchFailed (500) on the last allowed attempt only,
\* and on every earlier attempt is followed by the delay and another attempt.
C17_LaunchFailureHandling ==
  [][\A r \in Slots :
       LaunchStep(r) =>
         LET obs == hist'[r].lastObs IN
         /\ (obs.net = "ok" /\ obs.status_code # 200
               /\ ~MentionsMaxParallelism(obs.body)) =>
              /\ pc'[r] = "done"
              /\ response'[r].status_code = 500
              /\ hist'[r].slept = hist[r].slept
         /\ obs.net = "error" =>
              IF loc[r].attempt = max_retries - 1
              THEN /\ pc'[r] = "done"
                   /\ response'[r].status_code = 500
                   /\ response'[r].kind = "LaunchFailed"
              ELSE /\ pc'[r] = "launch"
                   /\ loc'[r].attempt = loc[r].attempt + 1
                   /\ hist'[r].slept = hist[r].slept + retry_delay
  ]_vars

\* the status check ended without a terminal status: a transport error, or
\* a 200 answer whose status is neither finished nor failed
NonTerminal(obs) ==
  \/ obs.net = "error"
  \/ ObsOk(obs) /\ ObsStatus(obs) \notin {"finished", "failed"}

\* C18: check_container_status never makes more than 30 status checks; while
\* it is still polling, every check so far ended without a terminal status
\* and fewer than 30 were made; the request fails with JobTimeout (504)
\* exactly when the 30th check, like the 29 before it, ended without a
\* terminal status.
C18_TimeoutAfterThirtyChecks ==
  \A r \in Slots :
    hist[r].stage = "poll" =>
      /\ hist[r].pollChecks <= container_max_retries
      /\ pc[r] = "poll" =>
           /\ hist[r].pollChecks < container_max_retries
           /\ NonTerminal(hist[r].lastObs)
           /\ hist[r].firstTerminal = 0
           /\ loc[r].retry_count = hist[r].pollChecks
      /\ (hist[r].pollChecks = container_max_retries /\ NonTerminal(hist[r].lastObs))
           <=> (Failed(r) /\ response[r].status_code = 504
                  /\ response[r].kind = "JobTimeout")

\* the 30th check was a transport error and the request ended with 504
C18_Witness ==
  \E r \in Slots :
    /\ hist[r].stage = "poll" /\ hist[r].pollChecks = container_max_retries
    /\ hist[r].lastObs = NetError
    /\ Failed(r) /\ response[r].status_code = 504

(***************************************************************************)
(* Every external call returns: a request that has a step to take          *)
(* eventually takes it.  The arrival of the next request is not forced.    *)
(***************************************************************************)
RequestStep(r) ==
  \/ Authenticate(r)
  \/ Enter(r)
  \/ Acquire(r)
  \/ Launch(r)
  \/ Poll(r)
  \/ Normalize(r)
  \/ PersistGet(r)
  \/ PersistWrite(r)
  \/ Respond(r)

SpecLive == Init /\ [][Next]_vars /\ \A r \in SeqSlots : WF_vars(RequestStep(r))

\* the number of steps a request at position p with locals l can still take:
\* the stages left, and the retries its loop has left
StepsLeft(p, l) ==
  CASE p = "auth" -> 58
    [] p = "handler" -> 57
    [] p = "acquire" ->
         41 + (Len(phantom_ids) - l.phantom_idx) * max_retries + (max_retries - l.attempt)
    [] p = "launch" -> 35 + (max_retries - l.attempt)
    [] p = "poll" -> 4 + (container_max_retries - l.retry_count)
    [] p = "normalize" -> 4
    [] p = "persist_get" -> 3
    [] p = "persist_write" -> 2
    [] p = "respond" -> 1
    [] OTHER -> 0

\* C19: every request that was received eventually has its response,
\* whatever the provider answers; the loops are bounded: every step of a
\* request uses up one of the at most 58 steps the request has left
\* (15 worker status checks, 5 launch requests, 30 job status checks and the
\* 8 single steps), so no loop retries indefinitely.
C19_EveryRequestResponds ==
  /\ \A r \in SeqSlots : (pc[r] = "auth") ~> (pc[r] = "done")
  /\ [](\A r \in Slots : StepsLeft(pc[r], loc[r]) \in 0..58)
  /\ [][\A r \in Slots :
          (pc[r] \notin {"idle", "done"}
             /\ <<pc[r], loc[r], hist[r]>>' # <<pc[r], loc[r], hist[r]>>) =>
            StepsLeft(pc'[r], loc'[r]) < StepsLeft(pc[r], loc[r])
     ]_vars

\* a request that used every retry of the three loops has its response
C19_Witness ==
  \E r \in SeqSlots :
    /\ pc[r] = "done" /\ response[r].status_code = 504
    /\ hist[r].slept = DelayBudget
    /\ Len(hist[r].calls) = 4

\* the stages before the session store is touched
EarlyStages == {"authenticate", "acquire", "launch", "poll", "normalize"}
EarlyPositions == {"auth", "handler", "acquire", "launch", "poll", "normalize"}

\* C20: a request that fails at authentication, worker acquisition, launch,
\* polling or normalization has made no session-store write, and none of its
\* steps up to there changes the store; a record is written or changed only
\* by the write step of a request that has called all of those stages, none
\* of which failed.
C20_FailureLeavesStoreUnchanged ==
  /\ [](\A r \in Slots :
          (Failed(r) /\ hist[r].stage \in EarlyStages) => hist[r].writes = <<>>)
  /\ [][/\ \A r \in Slots :
             /\ (pc[r] \in EarlyPositions
                   /\ <<pc[r], loc[r], hist[r]>>' # <<pc[r], loc[r], hist[r]>>) =>
                  store' = store
             /\ Len(hist'[r].writes) > Len(hist[r].writes) =>
                  /\ pc[r] = "persist_write"
                  /\ hist[r].calls = SubSeq(StageOrder, 1, 6)
                  /\ hist[r].origin = NoExc
                  /\ response[r] = NoResponse
        /\ store' # store =>
             \E r \in Slots : Len(hist'[r].writes) > Len(hist[r].writes)
     ]_vars

\* a request for url2 failed at normalization while the store holds the
\* record an earlier request wrote for url1
C20_Witness ==
  \E r \in Slots :
    /\ Failed(r) /\ hist[r].stage = "normalize"
    /\ loc[r].query.url = "url2"
    /\ store[loc[r].user_id].exists
    /\ store[loc[r].user_id].data = [Events_URL |-> "url1", sessionCookie |-> "c1"]

====
